---- MODULE Spec2Model ----
(***************************************************************************)
(* Model of main.py: a Telegram bot that indexes sale listings posted in   *)
(* group chats into an SQLite table, reposts them (POSTER mode), answers   *)
(* searches and marks listings as sold.                                    *)
(*                                                                         *)
(* Texts are sequences of one-character strings.  NBSP and LF stand for    *)
(* the characters U+00A0 and U+000A.  Optional values (Python None, SQL    *)
(* NULL) are sequences of length 0 or 1.                                   *)
(***************************************************************************)
EXTENDS Integers, Sequences, FiniteSets, Bags, TLC

VARIABLES store, tasks, now, mode, seen, acks, errors, found

vars == <<store, tasks, now, mode, seen, acks, errors, found>>

(***************************************************************************)
(* Bounds of the model.                                                    *)
(***************************************************************************)
MaxTasks == 2
MaxEvents == 3
MaxTokens == 2

(***************************************************************************)
(* Optional values.                                                        *)
(***************************************************************************)
None == <<>>
Some(v) == <<v>>
IsNone(o) == o = <<>>
Val(o) == o[1]

(***************************************************************************)
(* Characters.                                                             *)
(***************************************************************************)
NBSP == "NBSP"
LF == "LF"
DigitChars == <<"0", "1", "2", "3", "4", "5", "6", "7", "8", "9">>
UpperChars == <<"A", "B", "C", "D", "ZH">>
LowerChars == <<"a", "b", "c", "d", "zh">>
AsciiLetters == 1..4

Range(s) == {s[i] : i \in DOMAIN s}
IsDigit(c) == c \in Range(DigitChars)
DigitVal(c) == (CHOOSE i \in DOMAIN DigitChars : DigitChars[i] = c) - 1
IsSpace(c) == c \in {" ", NBSP, LF}
\* \w of a str pattern: letters, digits and the underscore
IsWord(c) == IsDigit(c) \/ c \in Range(UpperChars) \/ c \in Range(LowerChars) \/ c = "_"

\* str.lower() of one character
PyLowerChar(c) ==
    IF \E i \in DOMAIN UpperChars : UpperChars[i] = c
    THEN LowerChars[CHOOSE i \in DOMAIN UpperChars : UpperChars[i] = c]
    ELSE c
\* str.lower()
PyLower(s) == [i \in DOMAIN s |-> PyLowerChar(s[i])]

\* SQLite's LOWER() folds ASCII letters only
SqlLowerChar(c) ==
    IF \E i \in AsciiLetters : UpperChars[i] = c
    THEN LowerChars[CHOOSE i \in AsciiLetters : UpperChars[i] = c]
    ELSE c
SqlLower(s) == [i \in DOMAIN s |-> SqlLowerChar(s[i])]

(***************************************************************************)
(* normalize: NBSP -> space, then strip().                                 *)
(***************************************************************************)
Strip(s) ==
    LET keep == {i \in DOMAIN s : ~IsSpace(s[i])}
    IN  IF keep = {} THEN <<>>
        ELSE LET lo == CHOOSE i \in keep : \A j \in keep : i <= j
                 hi == CHOOSE i \in keep : \A j \in keep : j <= i
             IN  SubSeq(s, lo, hi)

normalize(text) ==
    Strip([i \in DOMAIN text |-> IF text[i] = NBSP THEN " " ELSE text[i]])

(***************************************************************************)
(* Regular expressions of parse_basic, matched as re.search does: the      *)
(* leftmost start position, alternatives in order, greedy repetitions      *)
(* with backtracking.                                                      *)
(***************************************************************************)
\* \b before position i (1-based; i = Len+1 is the end of the text)
Boundary(s, i) ==
    LET before == i > 1 /\ IsWord(s[i - 1])
        after == i <= Len(s) /\ IsWord(s[i])
    IN  before # after

\* number of consecutive digits starting at position i
DigitRun(s, i) ==
    CHOOSE n \in 0..(Len(s) - i + 1) :
        /\ \A k \in i..(i + n - 1) : IsDigit(s[k])
        /\ (i + n > Len(s) \/ ~IsDigit(s[i + n]))

\* YEAR_RE = \b(19\d{2}|20\d{2})\b at position i
YearAt(s, i) ==
    /\ i + 3 <= Len(s)
    /\ Boundary(s, i)
    /\ <<s[i], s[i + 1]>> \in {<<"1", "9">>, <<"2", "0">>}
    /\ IsDigit(s[i + 2]) /\ IsDigit(s[i + 3])
    /\ Boundary(s, i + 4)

\* YEAR_RE.search(text): the matched group, or None
YearSearch(s) ==
    LET hits == {i \in DOMAIN s : YearAt(s, i)}
    IN  IF hits = {} THEN None
        ELSE LET i == CHOOSE i \in hits : \A j \in hits : i <= j
             IN  Some(SubSeq(s, i, i + 3))

\* number of consecutive groups [\s. ]\d{3} starting at position i
RECURSIVE Groups(_, _)
Groups(s, i) ==
    IF /\ i + 3 <= Len(s)
       /\ (IsSpace(s[i]) \/ s[i] = ".")
       /\ IsDigit(s[i + 1]) /\ IsDigit(s[i + 2]) /\ IsDigit(s[i + 3])
    THEN 1 + Groups(s, i + 4)
    ELSE 0

\* end (exclusive) of the match of \b\d{6,}\b at i, or 0
BigNumberAt(s, i) ==
    LET n == DigitRun(s, i)
    IN  IF Boundary(s, i) /\ n >= 6 /\ Boundary(s, i + n) THEN i + n ELSE 0

\* end (exclusive) of the match of \b\d{1,3}(?:[\s. ]\d{3})+\b at i, or 0
GroupedAt(s, i) ==
    LET n == DigitRun(s, i)
        g == Groups(s, i + n)
    IN  IF ~(Boundary(s, i) /\ n >= 1 /\ n <= 3 /\ g >= 1) THEN 0
        ELSE IF Boundary(s, i + n + 4 * g) THEN i + n + 4 * g
        ELSE IF g >= 2 THEN i + n + 4 * (g - 1)
        ELSE 0

PriceAt(s, i) ==
    IF BigNumberAt(s, i) # 0 THEN BigNumberAt(s, i) ELSE GroupedAt(s, i)

\* re.search(r"\b\d{6,}\b|\b\d{1,3}(?:[\s. ]\d{3})+\b", text)
PriceSearch(s) ==
    LET hits == {i \in DOMAIN s : PriceAt(s, i) # 0}
    IN  IF hits = {} THEN None
        ELSE LET i == CHOOSE i \in hits : \A j \in hits : i <= j
             IN  Some(SubSeq(s, i, PriceAt(s, i) - 1))

\* int() of a string of decimal digits
RECURSIVE DigitsToInt(_)
DigitsToInt(s) ==
    IF s = <<>> THEN 0
    ELSE 10 * DigitsToInt(SubSeq(s, 1, Len(s) - 1)) + DigitVal(s[Len(s)])

\* to_int_price: int(re.sub(r"\D", "", s))
to_int_price(s) == DigitsToInt(SelectSeq(s, IsDigit))

\* parse_basic accepting a text with only one of the two
parse_basic_either(text) ==
    LET y == YearSearch(text)
        m == PriceSearch(text)
    IN  IF IsNone(y) /\ IsNone(m)
        THEN <<FALSE, None, None>>
        ELSE <<TRUE, IF IsNone(y) THEN None ELSE Some(DigitsToInt(Val(y))),
                     IF IsNone(m) THEN None ELSE Some(to_int_price(Val(m)))>>

\* parse_basic: <<ok, year, price>>
parse_basic(text) ==
    LET y == YearSearch(text)
        m == PriceSearch(text)
    IN  IF IsNone(y) \/ IsNone(m)
        THEN <<FALSE, None, None>>
        ELSE <<TRUE, Some(DigitsToInt(Val(y))), Some(to_int_price(Val(m)))>>

\* h without .lower()
h_cased(text) == text

\* h: md5 of the lower-cased text; the digest is represented by its preimage
h(text) == PyLower(text)

(***************************************************************************)
(* build_filters.  A call returns a value or raises an exception.          *)
(***************************************************************************)
Result(v) == [exception |-> None, value |-> Some(v)]

Raise(e) == [exception |-> Some(e), value |-> None]

\* the dictionary build_filters returns
Filter(year, price_op, price_val, price_min, price_max, terms, raw) ==
    [year |-> year, price_op |-> price_op, price_val |-> price_val,
     price_min |-> price_min, price_max |-> price_max, terms |-> terms, raw |-> raw]

\* [p for p in re.split(r"\s+", raw) if p]
RECURSIVE Split(_)
Split(s) ==
    IF s = <<>> THEN <<>>
    ELSE IF IsSpace(s[1]) THEN Split(Tail(s))
    ELSE LET n == CHOOSE n \in 1..Len(s) :
                    /\ \A k \in 1..n : ~IsSpace(s[k])
                    /\ (n = Len(s) \/ IsSpace(s[n + 1]))
         IN  <<SubSeq(s, 1, n)>> \o Split(SubSeq(s, n + 1, Len(s)))

\* re.fullmatch(r"(19\d{2}|20\d{2})", p)
IsYearToken(p) ==
    /\ Len(p) = 4
    /\ <<p[1], p[2]>> \in {<<"1", "9">>, <<"2", "0">>}
    /\ IsDigit(p[3]) /\ IsDigit(p[4])

\* the character class [\d\s.\u00A0]
InClass(c) == IsDigit(c) \/ IsSpace(c) \/ c = "."

\* s without its leading whitespace
RECURSIVE LStrip(_)
LStrip(s) == IF s # <<>> /\ IsSpace(s[1]) THEN LStrip(Tail(s)) ELSE s

\* \s*(\d[\d\s.\u00A0]{5,})\s* over the whole of s
IsRangeSide(s) ==
    LET t == LStrip(s)
    IN  /\ Len(t) >= 6
        /\ IsDigit(t[1])
        /\ \A k \in DOMAIN t : InClass(t[k])

\* PRICE_RANGE_RE.match(p): the position of the "-" between the two groups,
\* or 0
RangeDash(p) ==
    LET hits == {k \in DOMAIN p :
                    /\ p[k] = "-"
                    /\ IsRangeSide(SubSeq(p, 1, k - 1))
                    /\ IsRangeSide(SubSeq(p, k + 1, Len(p)))}
    IN  IF hits = {} THEN 0 ELSE CHOOSE k \in hits : TRUE

\* the alternatives of (<=|>=|<|>|=)? in the order the pattern tries them,
\* the last one being the group left out
PriceOps ==
    << [text |-> <<"<", "=">>, op |-> "<="], [text |-> <<">", "=">>, op |-> ">="],
       [text |-> <<"<">>, op |-> "<"], [text |-> <<">">>, op |-> ">"],
       [text |-> <<"=">>, op |-> "="], [text |-> <<>>, op |-> ""] >>

\* p is the alternative a followed by \s*([\d\s.\u00A0]{6,})$
PriceTokenFits(p, a) ==
    /\ Len(a.text) <= Len(p)
    /\ SubSeq(p, 1, Len(a.text)) = a.text
    /\ Len(p) - Len(a.text) >= 6
    /\ \A k \in (Len(a.text) + 1)..Len(p) : InClass(p[k])

\* PRICE_TOKEN_RE.match(p): the index of the alternative that matched, or 0
PriceTokenMatch(p) ==
    LET hits == {i \in DOMAIN PriceOps : PriceTokenFits(p, PriceOps[i])}
    IN  IF hits = {} THEN 0 ELSE CHOOSE i \in hits : \A j \in hits : i <= j

\* the kind of a token: the first of the four branches of the loop it takes
TokenKind(p) ==
    IF IsYearToken(p) THEN "year"
    ELSE IF RangeDash(p) # 0 THEN "range"
    ELSE IF PriceTokenMatch(p) # 0 THEN "comparator"
    ELSE "term"

\* int("") in to_int_price raises ValueError
ToIntPriceRaises(s) == SelectSeq(s, IsDigit) = <<>>

\* one pass of the loop body
FilterStep(f, p) ==
    CASE TokenKind(p) = "year" -> [f EXCEPT !.year = Some(DigitsToInt(p))]
      [] TokenKind(p) = "range" ->
            LET a == to_int_price(SubSeq(p, 1, RangeDash(p) - 1))
                b == to_int_price(SubSeq(p, RangeDash(p) + 1, Len(p)))
            IN  [f EXCEPT !.price_min = Some(IF a <= b THEN a ELSE b),
                          !.price_max = Some(IF a <= b THEN b ELSE a)]
      [] TokenKind(p) = "comparator" ->
            LET a == PriceOps[PriceTokenMatch(p)]
            IN  [f EXCEPT !.price_op = Some(IF a.op = "" THEN "=" ELSE a.op),
                          !.price_val = Some(to_int_price(SubSeq(p, Len(a.text) + 1, Len(p))))]
      [] OTHER -> [f EXCEPT !.terms = Append(f.terms, p)]

\* the loop over the parts from the last to the first: the first token of a
\* kind is the one that stays
RECURSIVE FilterLoop_first(_, _)
FilterLoop_first(f, parts) ==
    IF parts = <<>> THEN f
    ELSE FilterLoop_first(FilterStep(f, parts[Len(parts)]), SubSeq(parts, 1, Len(parts) - 1))

\* for p in parts
RECURSIVE FilterLoop(_, _)
FilterLoop(f, parts) ==
    IF parts = <<>> THEN f ELSE FilterLoop(FilterStep(f, Head(parts)), Tail(parts))

build_filters(raw_) ==
    LET raw == normalize(raw_)
        parts == Split(raw)
    IN  IF \E k \in DOMAIN parts :
              /\ TokenKind(parts[k]) = "comparator"
              /\ ToIntPriceRaises(parts[k])
        THEN Raise("ValueError")
        ELSE Result(FilterLoop(Filter(None, None, None, None, None, <<>>, raw), parts))

(***************************************************************************)
(* The listings table.  No statement deletes rows, so the AUTOINCREMENT    *)
(* id of the next row is the number of rows plus one.                      *)
(***************************************************************************)
exists_by_hash(db, hash_) == \E i \in DOMAIN db : db[i].hash = hash_

lastrowid(db) == Len(db) + 1

add_listing(db, src_chat, src_msg, text, year, price, created) ==
    Append(db, [id |-> lastrowid(db), src_chat |-> src_chat, src_msg |-> src_msg,
                text |-> text, hash |-> h(text), year |-> year, price |-> price,
                sold |-> 0, created |-> created, cat_msg |-> None])

\* set_cat_msg without "WHERE id=?"
set_cat_msg_every_row(db, lid, cat_msg) ==
    [i \in DOMAIN db |-> [db[i] EXCEPT !.cat_msg = Some(cat_msg)]]

set_cat_msg(db, lid, cat_msg) ==
    [i \in DOMAIN db |->
        IF db[i].id = lid THEN [db[i] EXCEPT !.cat_msg = Some(cat_msg)] ELSE db[i]]

\* mark_sold without "WHERE id=?"
mark_sold_every_row(db, lid) == [i \in DOMAIN db |-> [db[i] EXCEPT !.sold = 1]]

\* mark_sold with "SET sold = 1 - sold"
mark_sold_toggle(db, lid) ==
    [i \in DOMAIN db |->
        IF db[i].id = lid THEN [db[i] EXCEPT !.sold = 1 - db[i].sold] ELSE db[i]]

\* mark_sold whose UPDATE is never committed
mark_sold_uncommitted(db, lid) == db

mark_sold(db, lid) ==
    [i \in DOMAIN db |-> IF db[i].id = lid THEN [db[i] EXCEPT !.sold = 1] ELSE db[i]]

\* get_listing without "WHERE id=?"
get_listing_unfiltered(db, lid) == IF db = <<>> THEN None ELSE Some(db[1])

\* get_listing: the row with this id, or None
get_listing(db, lid) ==
    IF \E i \in DOMAIN db : db[i].id = lid
    THEN Some(db[CHOOSE i \in DOMAIN db : db[i].id = lid])
    ELSE None

\* SELECT COUNT(*) FROM listings
CountAll(db) == Cardinality(DOMAIN db)

\* SELECT COUNT(*) FROM listings WHERE sold=?
CountSold(db, sold) == Cardinality({i \in DOMAIN db : db[i].sold = sold})

\* SELECT COUNT(*) FROM listings WHERE created >= ?
CountSince(db, since) == Cardinality({i \in DOMAIN db : db[i].created >= since})

(***************************************************************************)
(* search_db.  A filter is the dictionary build_filters returns.           *)
(***************************************************************************)
\* SQL LIKE: % is any run of characters, _ any one character
RECURSIVE Like(_, _)
Like(s, pat) ==
    IF pat = <<>> THEN s = <<>>
    ELSE IF Head(pat) = "%"
         THEN Like(s, Tail(pat)) \/ (s # <<>> /\ Like(Tail(s), pat))
    ELSE /\ s # <<>>
         /\ (Head(pat) = "_" \/ SqlLowerChar(Head(pat)) = SqlLowerChar(Head(s)))
         /\ Like(Tail(s), Tail(pat))

\* search_db without "sold=0"
SoldClause_absent(r) == TRUE

\* "sold=0"
SoldClause(r) == r.sold = 0

\* "year=?", added when filters.get("year") is truthy
YearClause(f, r) ==
    (~IsNone(f.year) /\ Val(f.year) # 0) =>
        (~IsNone(r.year) /\ Val(r.year) = Val(f.year))

Compare(op, a, b) ==
    CASE op = "<" -> a < b
      [] op = ">" -> a > b
      [] op = "<=" -> a <= b
      [] op = ">=" -> a >= b
      [] OTHER -> a = b

\* "price BETWEEN ? AND ?", else "price <op> ?"
PriceClause(f, r) ==
    IF ~IsNone(f.price_min) /\ ~IsNone(f.price_max)
    THEN ~IsNone(r.price) /\ Val(f.price_min) <= Val(r.price)
                          /\ Val(r.price) <= Val(f.price_max)
    ELSE IF ~IsNone(f.price_op) /\ Val(f.price_op) # "" /\ ~IsNone(f.price_val)
    THEN ~IsNone(r.price) /\ Compare(Val(f.price_op), Val(r.price), Val(f.price_val))
    ELSE TRUE

\* "LOWER(text) LIKE ?" with the parameter %<t.lower()>%, for every term
TermsClause(f, r) ==
    \A k \in DOMAIN f.terms :
        Like(SqlLower(r.text), <<"%">> \o PyLower(f.terms[k]) \o <<"%">>)

Where(f, r) == SoldClause(r) /\ YearClause(f, r) /\ PriceClause(f, r) /\ TermsClause(f, r)

\* the columns the SELECT of search_db names
Columns(r) ==
    [id |-> r.id, src_chat |-> r.src_chat, src_msg |-> r.src_msg, text |-> r.text,
     year |-> r.year, price |-> r.price, sold |-> r.sold]

\* the matching rows, ORDER BY id DESC
RECURSIVE OrderDesc(_, _)
OrderDesc(db, f) ==
    IF db = <<>> THEN <<>>
    ELSE LET r == db[Len(db)]
             rest == OrderDesc(SubSeq(db, 1, Len(db) - 1), f)
         IN  IF Where(f, r) THEN <<Columns(r)>> \o rest ELSE rest

\* search_db without "LIMIT ?"
Limit_absent(rows, limit) == rows

\* LIMIT ?: the first rows, all of them when the limit is negative
Limit(rows, limit) ==
    SubSeq(rows, 1, IF limit < 0 \/ Len(rows) < limit THEN Len(rows) ELSE limit)

\* the matching rows, ORDER BY id ASC
RECURSIVE OrderAsc(_, _)
OrderAsc(db, f) ==
    IF db = <<>> THEN <<>>
    ELSE LET r == db[1]
             rest == OrderAsc(Tail(db), f)
         IN  IF Where(f, r) THEN <<Columns(r)>> \o rest ELSE rest

\* search_db with "ORDER BY id ASC"
search_db_oldest_first(db, filters, limit) == Limit(OrderAsc(db, filters), limit)

search_db(db, filters, limit) == Limit(OrderDesc(db, filters), limit)

(***************************************************************************)
(* Inputs: group messages, callback payloads (the text after "sold:"),     *)
(* search filters, and the message ids the target chat assigns.            *)
(***************************************************************************)
AdUpper == <<"A", " ", "2", "0", "1", "9", " ", "5", "0", "0", "0", "0", "0">>
AdLowerPadded ==
    <<" ", "a", " ", "2", "0", "1", "9", " ", "5", "0", "0", "0", "0", "0", NBSP>>
AdOldYearCheap == <<"b", " ", "1", "9", "6", "9", " ", "1", NBSP, "0", "0", "0">>
TextNoPrice == <<"b", " ", "2", "0", "1", "9">>
TextNoYear == <<"c", " ", "5", "0", "0", "0", "0", "0">>
TextBlank == <<" ", NBSP, LF>>

Message(chat, msg_id, text) == [chat |-> chat, msg_id |-> msg_id, text |-> text]

Messages ==
    { Message(-1001, 1, AdUpper), Message(-1002, 1, AdLowerPadded),
      Message(-1001, 2, AdOldYearCheap), Message(-1001, 3, TextNoPrice),
      Message(-1002, 2, TextNoYear), Message(-1001, 4, TextBlank) }

\* decimal digits of a number below 100
Decimal(k) ==
    IF k < 10 THEN <<DigitChars[k + 1]>>
    ELSE <<DigitChars[(k \div 10) + 1], DigitChars[(k % 10) + 1]>>

\* a feed of ads with one year and one price, told apart by their first word
FeedAd(k) ==
    <<"a">> \o Decimal(k) \o <<" ", "2", "0", "1", "9", " ", "5", "0", "0", "0", "0", "0">>

FeedMessage(k) == Message(-1001, 100 + k, FeedAd(k))

Payloads == { <<" ", "1">>, <<"-", "2">>, <<"x">> }

\* the text of a private message, after "/search" if it is the command
QueryEverything == <<"0">>
QueryYearPrice == <<"2", "0", "1", "9", " ", "=", "5", "0", "0", "0", "0", "0">>
QueryBoth ==
    <<"<", "0", "0", "2", "0", "0", "0", " ", "0", "0", "1", "0", "0", "0", "-", "6", "0", "0", "0", "0", "0", " ", "B", " ", "1", "_", "0">>
QueryBlank == <<" ", NBSP>>

Queries == {QueryEverything, QueryYearPrice, QueryBoth, QueryBlank}

\* the tokens of the queries: years, a price range, a price comparator, terms
QueryTokens ==
    { <<"2", "0", "1", "9">>, <<"1", "9", "6", "9">>,
      <<"4", "0", "0", "0", "0", "0", "-", "6", "0", "0", "0", "0", "0">>,
      <<"<", "0", "0", "2", "0", "0", "0">>,
      <<"b">>, <<"0">> }

RECURSIVE Join(_)
Join(parts) ==
    IF parts = <<>> THEN <<>>
    ELSE IF Len(parts) = 1 THEN parts[1]
    ELSE parts[1] \o <<" ">> \o Join(Tail(parts))

\* a token of separator characters, alone and after a comparator
QueryDots == <<".", ".", ".", ".", ".", ".">>
QueryOpDots == <<"<", ".", ".", ".", ".", ".", ".">>

\* the example of the docstring of build_filters
QueryDocstring == <<"<", "=", " ", "2", " ", "5", "0", "0", " ", "0", "0", "0">>

\* two tokens of each kind but the range
QueryLastWins ==
    <<"2", "0", "1", "9", " ", ">", "=", "4", "0", "0", "0", "0", "0", " ", "b", " ", "1", "9", "6", "9", " ", "<", "0", "0", "2", "0", "0", "0", " ", "0">>

\* the queries of up to MaxTokens tokens, and the four above
QueryTexts ==
    {Join(parts) : parts \in UNION {[1..n -> QueryTokens] : n \in 0..MaxTokens}}
        \cup {QueryDots, QueryOpDots, QueryDocstring, QueryLastWins}

QueryMessages == {Message(-1001, 1, AdUpper), Message(-1001, 2, AdOldYearCheap)}

TargetMsgIds == {701}

Years == {2026}

Modes == {"CATALOG", "POSTER"}

(***************************************************************************)
(* int(s) for the callback payload: surrounding whitespace, an optional    *)
(* sign, decimal digits with single underscores between them.  None is     *)
(* ValueError.                                                             *)
(***************************************************************************)
ParseInt(s) ==
    LET t == Strip(s)
        signed == t # <<>> /\ t[1] \in {"-", "+"}
        body == IF signed THEN Tail(t) ELSE t
        wellFormed ==
            /\ body # <<>>
            /\ IsDigit(body[1]) /\ IsDigit(body[Len(body)])
            /\ \A i \in DOMAIN body : IsDigit(body[i]) \/ body[i] = "_"
            /\ \A i \in 1..(Len(body) - 1) : ~(body[i] = "_" /\ body[i + 1] = "_")
        magnitude == DigitsToInt(SelectSeq(body, IsDigit))
    IN  IF ~wellFormed THEN None
        ELSE IF signed /\ t[1] = "-" THEN Some(0 - magnitude)
        ELSE Some(magnitude)

(***************************************************************************)
(* Handlers.  The dispatcher runs every update in a task of its own; a     *)
(* task is suspended at each await, and each database function is one      *)
(* transaction.  tasks is the bag of the suspended handlers, each with its *)
(* position and its locals.                                                *)
(***************************************************************************)

\* limit=10 in search_cmd and search_plain
SearchLimit == 10

\* the feed is one ad longer than a page of search results
FeedLength == SearchLimit + 1

FeedMessages == {FeedMessage(k) : k \in 1..FeedLength}

FeedPayloads == { <<" ", "1">>, <<"1", "1">> }

FeedQueries == {QueryYearPrice}

\* what search_cmd and search_plain compute from a query before their await
Built ==
    [text \in Queries \cup FeedQueries \cup QueryTexts |->
        LET q == normalize(text)
        IN  [q |-> q, filters |-> build_filters(q)]]

\* what catch_group computes from a message before its first await
Classified ==
    [m \in Messages \cup FeedMessages |->
        LET text == normalize(m.text)
        IN  [text |-> text, parsed |-> parse_basic(text), hash |-> h(text)]]

Task(kind, pc) ==
    [kind |-> kind, pc |-> pc, chat |-> 0, msg_id |-> 0, text |-> <<>>,
     hash |-> <<>>, year |-> None, price |-> None, lid |-> 0, sent |-> 0,
     total |-> 0, active |-> 0, sold |-> 0, last24 |-> 0]

Running == BagToSet(tasks)

Spawn(t) == tasks' = tasks (+) SetToBag({t})

Return(t) == tasks' = tasks (-) SetToBag({t})

Continue(t, next) == tasks' = (tasks (-) SetToBag({t})) (+) SetToBag({next})

Goto(t, pc) == Continue(t, [t EXCEPT !.pc = pc])

\* history, not program state: for each lower-cased accepted text, the first
\* event that carried it
Accept(text, m) ==
    IF \E e \in seen : e.lower = PyLower(text) THEN seen
    ELSE seen \cup {[lower |-> PyLower(text), chat |-> m.chat, msg_id |-> m.msg_id]}

Init ==
    /\ store = <<>>
    /\ tasks = EmptyBag
    /\ now \in Years
    /\ mode \in Modes
    /\ seen = {}
    /\ acks = <<>>
    /\ errors = {}
    /\ found = None

\* catch_group up to the first await: normalize, parse_basic, h
CatchStart(m) ==
    LET text == Classified[m].text
        parsed == Classified[m].parsed
    IN  /\ IF text = <<>> \/ ~parsed[1]
           THEN UNCHANGED <<tasks, seen>>
           ELSE /\ Spawn([Task("catch_group", "exists_by_hash") EXCEPT
                            !.chat = m.chat, !.msg_id = m.msg_id, !.text = text,
                            !.hash = Classified[m].hash, !.year = parsed[2],
                            !.price = parsed[3]])
                /\ seen' = Accept(text, m)
        /\ found' = None
        /\ UNCHANGED <<store, now, mode, acks, errors>>

\* if await exists_by_hash(hash_): return
CatchExists(t) ==
    /\ t.kind = "catch_group" /\ t.pc = "exists_by_hash"
    /\ IF exists_by_hash(store, t.hash) THEN Return(t) ELSE Goto(t, "add_listing")
    /\ found' = None
    /\ UNCHANGED <<store, now, mode, seen, acks, errors>>

\* lid = await add_listing(...); if MODE != "POSTER": return
CatchInsert(t) ==
    /\ t.kind = "catch_group" /\ t.pc = "add_listing"
    /\ store' = add_listing(store, t.chat, t.msg_id, t.text, t.year, t.price, now)
    /\ IF mode # "POSTER" THEN Return(t)
       ELSE Continue(t, [t EXCEPT !.pc = "send", !.lid = lastrowid(store)])
    /\ found' = None
    /\ UNCHANGED <<now, mode, seen, acks, errors>>

\* sent = await msg.bot.send_photo / send_video / send_message: the call
\* returns the sent message, or raises and the exception leaves the handler
CatchSend(t) ==
    /\ t.kind = "catch_group" /\ t.pc = "send"
    /\ \/ \E sent \in TargetMsgIds :
            /\ Continue(t, [t EXCEPT !.pc = "set_cat_msg", !.sent = sent])
            /\ UNCHANGED errors
       \/ /\ Return(t)
          /\ errors' = errors \cup {"catch_group"}
    /\ found' = None
    /\ UNCHANGED <<store, now, mode, seen, acks>>

\* await set_cat_msg(lid, sent.message_id)
CatchSetCat(t) ==
    /\ t.kind = "catch_group" /\ t.pc = "set_cat_msg"
    /\ store' = set_cat_msg(store, t.lid, t.sent)
    /\ Return(t)
    /\ found' = None
    /\ UNCHANGED <<now, mode, seen, acks, errors>>

Answer(lid, kind) == acks' = Append(acks, [lid |-> lid, kind |-> kind])

\* sold_cb up to the first await: lid = int(call.data.split(":", 1)[1])
SoldStart(payload) ==
    LET lid == ParseInt(payload)
    IN  /\ IF IsNone(lid)
           THEN Answer(None, "error") /\ UNCHANGED tasks
           ELSE /\ Spawn([Task("sold_cb", "get_listing") EXCEPT !.lid = Val(lid)])
                /\ UNCHANGED acks
        /\ found' = None
        /\ UNCHANGED <<store, now, mode, seen, errors>>

\* row = await get_listing(lid), and the branches on row and on sold
SoldGet(t) ==
    LET row == get_listing(store, t.lid)
    IN  /\ t.kind = "sold_cb" /\ t.pc = "get_listing"
        /\ IF IsNone(row) THEN Answer(Some(t.lid), "not_found") /\ Return(t)
           ELSE IF Val(row).sold # 0 THEN Answer(Some(t.lid), "already_sold") /\ Return(t)
           ELSE Goto(t, "mark_sold") /\ UNCHANGED acks
        /\ found' = None
        /\ UNCHANGED <<store, now, mode, seen, errors>>

\* await mark_sold(lid)
SoldMark(t) ==
    /\ t.kind = "sold_cb" /\ t.pc = "mark_sold"
    /\ store' = mark_sold(store, t.lid)
    /\ Goto(t, "answer")
    /\ found' = None
    /\ UNCHANGED <<now, mode, seen, acks, errors>>

\* safe_edit_message, then call.answer("marked as SOLD")
SoldAnswer(t) ==
    /\ t.kind = "sold_cb" /\ t.pc = "answer"
    /\ Answer(Some(t.lid), "marked_sold")
    /\ Return(t)
    /\ found' = None
    /\ UNCHANGED <<store, now, mode, seen, errors>>

\* search_cmd / search_plain: q = normalize(text), filters = build_filters(q),
\* rows = await search_db(filters, limit=10), and the replies, which show the
\* rows found.  An exception of build_filters leaves the handler.  found is
\* what the step just taken replied: a search's rows, and nothing after any
\* other step.
Search(text) ==
    LET q == Built[text].q
        filters == Built[text].filters
    IN  /\ IF q = <<>>
           THEN found' = None /\ UNCHANGED errors
           ELSE IF ~IsNone(filters.exception)
           THEN found' = None /\ errors' = errors \cup {"search_cmd"}
           ELSE /\ found' = Some([filters |-> Val(filters.value),
                                  rows |-> search_db(store, Val(filters.value), SearchLimit)])
                /\ UNCHANGED errors
        /\ UNCHANGED <<store, tasks, now, mode, seen, acks>>

\* stats_cmd up to the first query of stats_db
StatsStart ==
    /\ Spawn(Task("stats_cmd", "count_total"))
    /\ found' = None
    /\ UNCHANGED <<store, now, mode, seen, acks, errors>>

\* one query of stats_db after another, each reading the rows committed when
\* it runs; the clock stands still in a run, so the last 24 hours begin now
StatsCount(t) ==
    /\ t.kind = "stats_cmd"
    /\ \/ /\ t.pc = "count_total"
          /\ Continue(t, [t EXCEPT !.pc = "count_active", !.total = CountAll(store)])
       \/ /\ t.pc = "count_active"
          /\ Continue(t, [t EXCEPT !.pc = "count_sold", !.active = CountSold(store, 0)])
       \/ /\ t.pc = "count_sold"
          /\ Continue(t, [t EXCEPT !.pc = "count_last24", !.sold = CountSold(store, 1)])
       \/ /\ t.pc = "count_last24"
          /\ Continue(t, [t EXCEPT !.pc = "answer", !.last24 = CountSince(store, now)])
    /\ found' = None
    /\ UNCHANGED <<store, now, mode, seen, acks, errors>>

\* await msg.answer(...) with the four numbers
StatsAnswer(t) ==
    /\ t.kind = "stats_cmd" /\ t.pc = "answer"
    /\ Return(t)
    /\ found' = None
    /\ UNCHANGED <<store, now, mode, seen, acks, errors>>

\* one step of a suspended handler
Resume(t) ==
    \/ CatchExists(t)
    \/ CatchInsert(t)
    \/ CatchSend(t)
    \/ CatchSetCat(t)
    \/ SoldGet(t)
    \/ SoldMark(t)
    \/ SoldAnswer(t)

\* at most MaxTasks handlers are suspended at a time
Free == BagCardinality(tasks) < MaxTasks

\* the listings stored, the callbacks answered and the handlers that will
\* add to them are at most MaxEvents
Room == Len(store) + Len(acks) + BagCardinality(tasks) < MaxEvents

\* a chat numbers its messages, and an update is delivered once: no handler
\* is running for this message and no listing came from it
Undelivered(m) ==
    /\ ~\E t \in Running : t.kind = "catch_group" /\ t.chat = m.chat /\ t.msg_id = m.msg_id
    /\ ~\E i \in DOMAIN store : store[i].src_chat = m.chat /\ store[i].src_msg = m.msg_id

(***************************************************************************)
(* Spec: updates are handled concurrently.                                 *)
(***************************************************************************)
Next ==
    \/ \E m \in Messages : Free /\ Room /\ Undelivered(m) /\ CatchStart(m)
    \/ \E payload \in Payloads : Free /\ Room /\ SoldStart(payload)
    \/ \E text \in Queries : Search(text)
    \/ \E t \in Running : Resume(t)

Spec == Init /\ [][Next]_vars

(***************************************************************************)
(* SpecSeq: updates are handled one after another.                         *)
(***************************************************************************)
Quiet == tasks = EmptyBag

NextSeq ==
    \/ \E m \in Messages : Quiet /\ Room /\ Undelivered(m) /\ CatchStart(m)
    \/ \E payload \in Payloads : Quiet /\ Room /\ SoldStart(payload)
    \/ \E text \in Queries : Quiet /\ Search(text)
    \/ \E t \in Running : Resume(t)

SpecSeq == Init /\ [][NextSeq]_vars

(***************************************************************************)
(* SpecFeed: the bot runs in its default mode, CATALOG; updates are        *)
(* handled one after another, and the group posts the ads of the feed in   *)
(* order.                                                                  *)
(***************************************************************************)
InitFeed == Init /\ mode = "CATALOG"

NextFeed ==
    \/ \E k \in 1..FeedLength :
            Quiet /\ k = Len(store) + 1 /\ CatchStart(FeedMessage(k))
    \/ \E payload \in FeedPayloads :
            Quiet /\ Len(acks) < MaxEvents /\ SoldStart(payload)
    \/ \E text \in FeedQueries : Quiet /\ Search(text)
    \/ \E t \in Running : CatchExists(t)
    \/ \E t \in Running : CatchInsert(t)
    \/ \E t \in Running : SoldGet(t)
    \/ \E t \in Running : SoldMark(t)
    \/ \E t \in Running : SoldAnswer(t)

SpecFeed == InitFeed /\ [][NextFeed]_vars

(***************************************************************************)
(* SpecQuery: the bot runs in CATALOG mode; updates are handled one after  *)
(* another; the group posts two ads and the private chat sends queries of  *)
(* up to MaxTokens tokens.                                                 *)
(***************************************************************************)
NextQuery ==
    \/ \E m \in QueryMessages : Quiet /\ Undelivered(m) /\ CatchStart(m)
    \/ \E text \in QueryTexts : Quiet /\ Search(text)
    \/ \E t \in Running : CatchExists(t)
    \/ \E t \in Running : CatchInsert(t)

SpecQuery == InitFeed /\ [][NextQuery]_vars

(***************************************************************************)
(* SpecStats: updates are handled concurrently; the group posts two ads,   *)
(* callbacks ask to mark listings sold and the private chat asks for the   *)
(* statistics.                                                             *)
(***************************************************************************)
NextStats ==
    \/ \E m \in QueryMessages : Free /\ Room /\ Undelivered(m) /\ CatchStart(m)
    \/ \E payload \in Payloads : Free /\ Room /\ SoldStart(payload)
    \/ Free /\ StatsStart
    \/ \E t \in Running : Resume(t)
    \/ \E t \in Running : StatsCount(t)
    \/ \E t \in Running : StatsAnswer(t)

SpecStats == Init /\ [][NextStats]_vars

(***************************************************************************)
(* Properties.                                                             *)
(***************************************************************************)
Rows == Range(store)

AnswerOf(lid, kind) == [lid |-> Some(lid), kind |-> kind]

\* C1: the store never holds two listings with the same fingerprint, under
\* any interleaving of concurrently handled group messages.
C1_UniqueFingerprint ==
    \A i, j \in DOMAIN store : store[i].hash = store[j].hash => i = j

\* between handlers, the stored listings are the first events of each
\* distinct lower-cased accepted text, one listing each
C2_Stored ==
    Quiet =>
        /\ {[lower |-> PyLower(r.text), chat |-> r.src_chat, msg_id |-> r.src_msg] :
                r \in Rows} = seen
        /\ Len(store) = Cardinality(seen)

\* a handler whose text is stored already leaves the store as it is
C2_LaterEventIgnored ==
    \A t \in Running :
        (/\ t.kind = "catch_group" /\ t.pc = "exists_by_hash"
         /\ \E r \in Rows : PyLower(r.text) = PyLower(t.text)) => store' = store

\* C2: when events are handled one after another, the stored listings are
\* exactly the first events of each distinct lower-cased accepted text, one
\* listing each, and handling a later event with a stored text leaves the
\* store as it is.
C2_SequentialDedup == [](C2_Stored) /\ [][C2_LaterEventIgnored]_vars

\* C2 witness: a listing is stored and an event from another chat, whose text
\* differs from it only in case, is being handled.
C2_Witness ==
    \E t \in Running, r \in Rows :
        /\ t.kind = "catch_group" /\ t.pc = "exists_by_hash"
        /\ PyLower(t.text) = PyLower(r.text)
        /\ t.text # r.text /\ t.chat # r.src_chat

\* C3: every listing a search returns is Active in the store the query read.
C3_SearchOnlyActive ==
    ~IsNone(found) =>
        \A k \in DOMAIN Val(found).rows :
            \E r \in Rows : r.id = Val(found).rows[k].id /\ r.sold = 0

\* C3 witness: a search returned a listing while a Sold listing satisfied
\* every other clause of its filter.
C3_Witness ==
    /\ ~IsNone(found)
    /\ Val(found).rows # <<>>
    /\ \E r \in Rows :
        /\ r.sold = 1
        /\ YearClause(Val(found).filters, r)
        /\ PriceClause(Val(found).filters, r)
        /\ TermsClause(Val(found).filters, r)

\* no row is removed, a Sold row stays Sold, a new row is Active
C4_Step ==
    /\ Len(store') >= Len(store)
    /\ \A i \in DOMAIN store : store[i].sold = 1 => store'[i].sold = 1
    /\ \A i \in DOMAIN store' \ DOMAIN store : store'[i].sold = 0

\* C4: every listing is created Active, and a Sold listing stays Sold (and
\* stored) in every later state.
C4_StatusMonotonic == [][C4_Step]_vars

\* C4 witness: a listing is Sold and a later mark-sold request for it has
\* been answered.
C4_Witness ==
    \E r \in Rows :
        /\ r.sold = 1
        /\ \E k \in DOMAIN acks : acks[k] = AnswerOf(r.id, "already_sold")

\* the first answer about a listing is "marked", every later one "already
\* sold", and the listing is Sold once answered
C5_Answers ==
    \A k \in DOMAIN acks :
        acks[k].kind \in {"marked_sold", "already_sold"} =>
            /\ acks[k].kind = "marked_sold" <=>
                    ~\E j \in 1..(k - 1) :
                        /\ acks[j].lid = acks[k].lid
                        /\ acks[j].kind \in {"marked_sold", "already_sold"}
            /\ \E r \in Rows : r.id = Val(acks[k].lid) /\ r.sold = 1

\* while a request for a Sold listing is handled the store stays as it is
C5_SoldUntouched ==
    (\E t \in Running, r \in Rows : t.kind = "sold_cb" /\ r.id = t.lid /\ r.sold = 1)
        => store' = store

\* C5: of the mark-sold requests for a listing handled one after another,
\* the first is answered as a fresh transition and leaves the listing Sold,
\* every later one is answered as already sold, and handling a request for
\* a Sold listing leaves the store as it is.
C5_MarkSoldTwice == [](C5_Answers) /\ [][C5_SoldUntouched]_vars

\* C5 witness: two requests for one listing were answered, the first as
\* marked, the second as already sold.
C5_Witness ==
    \E r \in Rows :
        /\ Len(acks) >= 2
        /\ acks[1] = AnswerOf(r.id, "marked_sold")
        /\ acks[2] = AnswerOf(r.id, "already_sold")

\* a lookup of an id that is not stored answers "not found", and a step that
\* answers "error" or "not found" writes nothing
C6_Step ==
    /\ \A t \in Running :
        (/\ t.kind = "sold_cb" /\ t.pc = "get_listing"
         /\ ~\E r \in Rows : r.id = t.lid
         /\ CopiesIn(t, tasks') < CopiesIn(t, tasks))
        => /\ acks' = Append(acks, AnswerOf(t.lid, "not_found"))
           /\ store' = store
    /\ (Len(acks') > Len(acks) /\ acks'[Len(acks')].kind \in {"error", "not_found"})
        => /\ store' = store
           /\ acks'[Len(acks')].kind = "not_found" =>
                ~\E r \in Rows : r.id = Val(acks'[Len(acks')].lid)

IsRoundTrip(f) ==
    /\ ~IsNone(f.year) /\ f.price_op = Some("=") /\ ~IsNone(f.price_val)
    /\ IsNone(f.price_min) /\ IsNone(f.price_max) /\ f.terms = <<>>

\* an Active listing with the filter's year and price
RoundTripMatch(f, r) == r.sold = 0 /\ r.year = f.year /\ r.price = f.price_val

Returned(r) == \E k \in DOMAIN Val(found).rows : Val(found).rows[k].id = r.id

\* C7 as stated: a search for the year and price of an Active listing
\* returns that listing, whatever else is stored.
C7_RoundTrip ==
    (~IsNone(found) /\ IsRoundTrip(Val(found).filters)) =>
        \A r \in Rows : RoundTripMatch(Val(found).filters, r) => Returned(r)

\* C7 amended: a search for the year and price of an Active listing returns
\* that listing unless SearchLimit or more newer Active listings have the
\* same year and price.
C7_RoundTripWithinLimit ==
    (~IsNone(found) /\ IsRoundTrip(Val(found).filters)) =>
        \A r \in Rows :
            RoundTripMatch(Val(found).filters, r) =>
                \/ Returned(r)
                \/ Cardinality({q \in Rows : RoundTripMatch(Val(found).filters, q)
                                             /\ q.id > r.id}) >= SearchLimit

\* C7 witness: more listings than one page are stored, all with one year and
\* price, and the search returned the oldest of them.
C7_Witness ==
    /\ ~IsNone(found) /\ IsRoundTrip(Val(found).filters)
    /\ Len(store) > SearchLimit
    /\ \E r \in Rows : r.id = 1 /\ RoundTripMatch(Val(found).filters, r) /\ Returned(r)

\* C8: every stored listing has a year from 1970 to the year after the
\* current one.
C8_YearBound ==
    \A r \in Rows : ~IsNone(r.year) /\ 1970 <= Val(r.year) /\ Val(r.year) <= now + 1

\* C9: every stored listing has a price of at least the floor, 50000.
C9_PriceFloor ==
    \A r \in Rows : ~IsNone(r.price) /\ Val(r.price) >= 50000

\* C10: parse_basic returns a year and a price or neither, and every stored
\* listing, and every listing about to be stored, has both.
C10_NoPartialListing ==
    /\ \A m \in Messages :
        LET parsed == Classified[m].parsed
        IN  IF parsed[1] THEN ~IsNone(parsed[2]) /\ ~IsNone(parsed[3])
            ELSE IsNone(parsed[2]) /\ IsNone(parsed[3])
    /\ \A r \in Rows : ~IsNone(r.year) /\ ~IsNone(r.price)
    /\ \A t \in Running :
        t.kind = "catch_group" => ~IsNone(t.year) /\ ~IsNone(t.price)

\* C10 witness: catch_group stored a listing whose price was written in
\* groups of digits.
C10_Witness ==
    \E r \in Rows : r.year = Some(1969) /\ r.price = Some(1000)

\* C11: filter parsing never raises: no search handler is left by an
\* exception of build_filters, whatever the query.
C11_FilterParsingNeverRaises == "search_cmd" \notin errors

\* the tokens of the query a search answered
FoundParts == Split(Val(found).filters.raw)

\* the position of the last token of a kind, or 0
LastOf(parts, kind) ==
    LET hits == {k \in DOMAIN parts : TokenKind(parts[k]) = kind}
    IN  IF hits = {} THEN 0 ELSE CHOOSE k \in hits : \A j \in hits : j <= k

\* the filter of whichever of the range and the comparator came later
LaterPriceFilter(f, parts) ==
    IF LastOf(parts, "range") > LastOf(parts, "comparator")
    THEN [f EXCEPT !.price_op = None, !.price_val = None]
    ELSE [f EXCEPT !.price_min = None, !.price_max = None]

\* C12: a search whose query has a range token and a comparator token
\* filters the price by whichever of the two comes later in the query.
C12_LastParsedWins ==
    (/\ ~IsNone(found)
     /\ LastOf(FoundParts, "range") # 0
     /\ LastOf(FoundParts, "comparator") # 0)
        => Val(found).rows =
               search_db(store, LaterPriceFilter(Val(found).filters, FoundParts), SearchLimit)

\* C13: the query "<= 2 500 000" yields the comparator "<=" with the value
\* 2500000 and no free-text term.
C13_ComparatorGroupedNumber ==
    (~IsNone(found) /\ Val(found).filters.raw = QueryDocstring) =>
        /\ Val(found).filters.price_op = Some("<=")
        /\ Val(found).filters.price_val = Some(2500000)
        /\ Val(found).filters.terms = <<>>

IsTerm(p) == TokenKind(p) = "term"

\* the comparator a token starts with, "=" when it starts with none
LeadingOp(p) ==
    IF Len(p) >= 2 /\ SubSeq(p, 1, 2) = <<"<", "=">> THEN "<="
    ELSE IF Len(p) >= 2 /\ SubSeq(p, 1, 2) = <<">", "=">> THEN ">="
    ELSE IF p[1] \in {"<", ">"} THEN p[1]
    ELSE "="

\* the numbers on the two sides of the "-" of a range token
RangeEnds(p) ==
    LET dash == CHOOSE k \in DOMAIN p : p[k] = "-"
    IN  {to_int_price(SubSeq(p, 1, dash - 1)), to_int_price(SubSeq(p, dash + 1, Len(p)))}

\* C17: the filter of a search holds the year of the last year token, the
\* range of the last range token, the comparator of the last comparator
\* token, each None when the query has no such token, and the free terms
\* in query order; a token is a term only when it is no year, range or
\* comparator.
C17_TokenPriority ==
    ~IsNone(found) =>
        LET f == Val(found).filters
            parts == FoundParts
            y == LastOf(parts, "year")
            r == LastOf(parts, "range")
            c == LastOf(parts, "comparator")
        IN  /\ f.year = IF y = 0 THEN None ELSE Some(DigitsToInt(parts[y]))
            /\ IF r = 0 THEN IsNone(f.price_min) /\ IsNone(f.price_max)
               ELSE /\ {Val(f.price_min), Val(f.price_max)} = RangeEnds(parts[r])
                    /\ Val(f.price_min) <= Val(f.price_max)
            /\ IF c = 0 THEN IsNone(f.price_op) /\ IsNone(f.price_val)
               ELSE /\ f.price_op = Some(LeadingOp(parts[c]))
                    /\ f.price_val = Some(to_int_price(parts[c]))
            /\ f.terms = SelectSeq(parts, IsTerm)
            /\ \A k \in DOMAIN parts :
                    IsTerm(parts[k]) <=>
                        ~(IsYearToken(parts[k]) \/ RangeDash(parts[k]) # 0
                                                \/ PriceTokenMatch(parts[k]) # 0)

\* C17 witness: a search answered the query with two years, two comparators
\* and two terms, and found the listing that the last of each matches.
C17_Witness ==
    /\ ~IsNone(found)
    /\ Val(found).filters.raw = QueryLastWins
    /\ Val(found).filters.year = Some(1969)
    /\ Val(found).filters.price_op = Some("<")
    /\ Val(found).rows # <<>>

\* C14: in POSTER mode a failure of the send after the insert is caught in
\* the handler: no exception leaves catch_group.
C14_RepostFailureCaught == "catch_group" \notin errors

\* the handlers that left their position in this step
Moved(kind) ==
    {t \in Running : t.kind = kind /\ CopiesIn(t, tasks') < CopiesIn(t, tasks)}

\* a step changes the repost reference of a listing only from unset to set,
\* and only in the set_cat_msg of the handler that inserted the listing
C15_Step ==
    \A i \in DOMAIN store :
        store'[i].cat_msg # store[i].cat_msg =>
            /\ IsNone(store[i].cat_msg)
            /\ \E t \in Moved("catch_group") : t.pc = "set_cat_msg" /\ t.lid = store[i].id

\* a handler that is to write the repost reference of a listing is the only
\* one for that listing, and the listing has none yet
C15_OneWriter ==
    \A t \in Running :
        (t.kind = "catch_group" /\ t.pc \in {"send", "set_cat_msg"}) =>
            /\ CopiesIn(t, tasks) = 1
            /\ \A u \in Running \ {t} : u.kind = "catch_group" => u.lid # t.lid
            /\ \E r \in Rows : r.id = t.lid /\ IsNone(r.cat_msg)

\* C15: the repost reference of a listing is written at most once and, once
\* set, no ingest, search or mark-sold step clears or changes it, under any
\* interleaving of handlers.
C15_CatMsgWrittenOnce == [](C15_OneWriter) /\ [][C15_Step]_vars

\* C15 witness: a listing was reposted and then marked Sold, and a later
\* listing was stored.
C15_Witness ==
    \E r, q \in Rows :
        /\ ~IsNone(r.cat_msg) /\ r.sold = 1
        /\ q.id > r.id
        /\ \E k \in DOMAIN acks : acks[k] = AnswerOf(r.id, "marked_sold")

\* the listings but for their status
Frame(db) == [i \in DOMAIN db |-> [db[i] EXCEPT !.sold = 0]]

\* a step of sold_cb: the callback arrives, or its handler moves on
SoldStep ==
    \/ acks' # acks
    \/ Moved("sold_cb") # {}
    \/ \E t \in BagToSet(tasks') : t.kind = "sold_cb" /\ CopiesIn(t, tasks') > CopiesIn(t, tasks)

\* a step of sold_cb keeps the number of listings and every field but the
\* status, and changes the status of no listing but the one requested
C18_Step ==
    SoldStep =>
        /\ Frame(store') = Frame(store)
        /\ \A i \in DOMAIN store :
                store'[i].sold # store[i].sold =>
                    \E t \in Moved("sold_cb") : t.lid = store[i].id

\* C18: a mark-sold request changes nothing but the status of the listing it
\* names: every other field of every listing, the status of every other
\* listing and the set of ids stay as they are.
C18_MarkSoldFrame == [][C18_Step]_vars

\* C18 witness: of two listings one was marked Sold by a request and the
\* other is Active.
C18_Witness ==
    \E r, q \in Rows :
        /\ r.sold = 1 /\ q.sold = 0
        /\ \E k \in DOMAIN acks : acks[k] = AnswerOf(r.id, "marked_sold")

\* C19: of the mark-sold requests for one listing, at most one is answered as
\* having marked it Sold, under any interleaving of their handlers.
C19_SingleTransitionAck ==
    \A j, k \in DOMAIN acks :
        (/\ acks[j].kind = "marked_sold" /\ acks[k].kind = "marked_sold"
         /\ acks[j].lid = acks[k].lid) => j = k

\* C20: the numbers stats_cmd is about to report are a snapshot: the total
\* is the sum of the active and the sold, also when ingest and mark-sold
\* handlers run between the count queries.
C20_StatsSnapshot ==
    \A t \in Running :
        (t.kind = "stats_cmd" /\ t.pc = "answer") => t.total = t.active + t.sold

\* the Active listings that satisfy a filter
Matches(f) == {r \in Rows : Where(f, r)}

\* rows are at most limit matches of the filter in strictly descending id
\* order, as many as there are matches up to the limit, and no match left
\* out is newer than a row
MostRecent(f, rows, limit) ==
    /\ Len(rows) <= limit
    /\ Len(rows) = limit \/ Len(rows) = Cardinality(Matches(f))
    /\ \A j, k \in DOMAIN rows : j < k => rows[j].id > rows[k].id
    /\ \A k \in DOMAIN rows : \E r \in Matches(f) : Columns(r) = rows[k]
    /\ \A r \in Matches(f) :
            (\A k \in DOMAIN rows : rows[k].id # r.id) =>
                \A k \in DOMAIN rows : rows[k].id > r.id

\* C16: search_db returns at most limit listings in strictly descending id
\* order, and they are the most recent matches: in the rows a search
\* replied with, and for every limit up to one past the feed for the
\* filters of the feed's queries.
C16_SearchOrderLimit ==
    /\ ~IsNone(found) => MostRecent(Val(found).filters, Val(found).rows, SearchLimit)
    /\ \A text \in FeedQueries, limit \in 0..(FeedLength + 1) :
            LET f == Val(Built[text].filters.value)
            IN  MostRecent(f, search_db(store, f, limit), limit)

\* C16 witness: a search replied with a full page while more listings
\* matched.
C16_Witness ==
    /\ ~IsNone(found)
    /\ Len(Val(found).rows) = SearchLimit
    /\ Cardinality(Matches(Val(found).filters)) > SearchLimit

====
